---- MODULE Spec2Model ----
(***************************************************************************)
(* Quaternion operations of quaternionops.py: the quaternion view          *)
(* (check_input, get_r .. get_k, get_modulus, get_normalized), the         *)
(* Hamilton product, the quaternion linear operator with its hand-written  *)
(* backward pass, the plain linear operator, and the weight initializers.  *)
(*                                                                         *)
(* A tensor is a record [kind, shape, data]: shape is the sequence of its  *)
(* sizes and data its elements in row-major order.  Elements are integers  *)
(* (integer-valued floats, on which the arithmetic of the code is exact).  *)
(* A raised exception is a record of kind "RuntimeError", "TypeError" or   *)
(* "ValueError" whose data names the step that raised it; every operation  *)
(* propagates the exception of an operand, as Python does.                 *)
(***************************************************************************)
EXTENDS Integers, Sequences, FiniteSets, TLC

-----------------------------------------------------------------------------
(* Values *)

Tensor(shape, data) == [kind |-> "tensor", shape |-> shape, data |-> data]

None == [kind |-> "None", shape |-> <<>>, data |-> <<>>]

\* Python's True, the default of quaternion_linear's bias parameter.
PyTrue == [kind |-> "True", shape |-> <<>>, data |-> <<>>]

Raise(exc, where) == [kind |-> exc, shape |-> <<>>, data |-> <<where>>]

Tuple(items) == [kind |-> "tuple", shape |-> <<>>, data |-> items]

IsTensor(t) == t.kind = "tensor"

IsError(t) ==
  t.kind \in {"RuntimeError", "TypeError", "ValueError", "IndexError", "Exception"}

\* The first raised exception among the values of a sequence, if any.
RECURSIVE FirstError(_)
FirstError(ts) ==
  IF ts = <<>> THEN None
  ELSE IF IsError(Head(ts)) THEN Head(ts) ELSE FirstError(Tail(ts))

-----------------------------------------------------------------------------
(* Row-major indexing.  Dimensions are numbered from 0 as in torch; a      *)
(* multi-index is a sequence of 0-based coordinates.                       *)

RECURSIVE Prod(_)
Prod(s) == IF s = <<>> THEN 1 ELSE Head(s) * Prod(Tail(s))

Stride(shape, d) == Prod(SubSeq(shape, d + 1, Len(shape)))

\* The multi-index of the element at row-major offset n.
Idx(shape, n) ==
  LET strides == [d \in 1..Len(shape) |-> Stride(shape, d)]
  IN  [d \in 1..Len(shape) |-> (n \div strides[d]) % shape[d]]

\* The row-major offset of a multi-index (Horner's rule from dimension d on).
RECURSIVE FlatFrom(_, _, _, _)
FlatFrom(shape, idx, d, acc) ==
  IF d > Len(shape) THEN acc
  ELSE FlatFrom(shape, idx, d + 1, acc * shape[d] + idx[d])

At(t, idx) == t.data[FlatFrom(t.shape, idx, 1, 0) + 1]

Build(shape, F(_)) ==
  LET strides == [d \in 1..Len(shape) |-> Stride(shape, d)]
  IN  Tensor(shape,
             [n \in 1..Prod(shape) |->
                F([d \in 1..Len(shape) |-> ((n - 1) \div strides[d]) % shape[d]])])

Dim(t) == Len(t.shape)

\* F(0) + ... + F(n - 1)
SumTo(n, F(_)) ==
  LET S[k \in 0..n] == IF k = 0 THEN 0 ELSE F(k - 1) + S[k - 1]
  IN  S[n]

-----------------------------------------------------------------------------
(* torch primitives used by the module *)

\* Tensor.narrow(dim, start, length): a 0-dim tensor cannot be narrowed, a
\* dim outside the rank or a start beyond the size is an IndexError, a range
\* that ends beyond the size a RuntimeError.
narrow(t, dim, start, length) ==
  IF IsError(t) THEN t
  ELSE IF Dim(t) = 0 THEN Raise("RuntimeError", "narrow")
  ELSE IF dim >= Dim(t) THEN Raise("IndexError", "narrow")
  ELSE IF start > t.shape[dim + 1] THEN Raise("IndexError", "narrow")
  ELSE IF start + length > t.shape[dim + 1] THEN Raise("RuntimeError", "narrow")
  ELSE Build([t.shape EXCEPT ![dim + 1] = length],
             LAMBDA idx: At(t, [idx EXCEPT ![dim + 1] = @ + start]))

\* unary minus
neg(t) ==
  IF IsError(t) THEN t ELSE Tensor(t.shape, [n \in 1..Len(t.data) |-> 0 - t.data[n]])

\* The tensor of a sequence that holds coordinate c of the concatenated
\* dimension, with the coordinate inside it.
RECURSIVE Locate(_, _, _, _)
Locate(ts, dim, c, k) ==
  IF c < ts[k].shape[dim + 1] THEN <<k, c>>
  ELSE Locate(ts, dim, c - ts[k].shape[dim + 1], k + 1)

RECURSIVE CatSize(_, _)
CatSize(ts, dim) ==
  IF ts = <<>> THEN 0 ELSE Head(ts).shape[dim + 1] + CatSize(Tail(ts), dim)

\* torch.cat(ts, dim): no tensor is 0-dim; the 1-D tensors of size 0 are
\* skipped (with none left the result is one of them); dim is inside the
\* rank of the first tensor left (an IndexError otherwise), and the tensors
\* left agree in rank and in every size but dim's.
cat(ts, dim) ==
  LET live == SelectSeq(ts, LAMBDA t: t.shape # <<0>>)
  IN  IF FirstError(ts) # None THEN FirstError(ts)
      ELSE IF \E k \in 1..Len(ts) : Dim(ts[k]) = 0 THEN Raise("RuntimeError", "cat")
      ELSE IF live = <<>> THEN Tensor(<<0>>, <<>>)
      ELSE IF dim >= Dim(live[1]) THEN Raise("IndexError", "cat")
      ELSE IF \E k \in 1..Len(live) :
                \/ Dim(live[k]) # Dim(live[1])
                \/ \E d \in 1..Dim(live[1]) :
                     d # dim + 1 /\ live[k].shape[d] # live[1].shape[d]
        THEN Raise("RuntimeError", "cat")
      ELSE Build([live[1].shape EXCEPT ![dim + 1] = CatSize(live, dim)],
                 LAMBDA idx:
                   LET at == Locate(live, dim, idx[dim + 1], 1)
                   IN  At(live[at[1]], [idx EXCEPT ![dim + 1] = at[2]]))

\* Broadcasting of two shapes, aligned at the last dimension.
Max(a, b) == IF a >= b THEN a ELSE b

Aligned(shape, r, d) ==
  IF d > r - Len(shape) THEN shape[d - (r - Len(shape))] ELSE 1

Broadcastable(sa, sb) ==
  LET r == Max(Len(sa), Len(sb))
  IN  \A d \in 1..r :
        \/ Aligned(sa, r, d) = Aligned(sb, r, d)
        \/ Aligned(sa, r, d) = 1
        \/ Aligned(sb, r, d) = 1

BroadcastShape(sa, sb) ==
  LET r == Max(Len(sa), Len(sb))
  IN  [d \in 1..r |->
         IF Aligned(sa, r, d) = 1 THEN Aligned(sb, r, d) ELSE Aligned(sa, r, d)]

\* The index of an operand's element that the broadcast result's idx reads.
BroadcastIdx(shape, idx) ==
  [d \in 1..Len(shape) |->
     IF shape[d] = 1 THEN 0 ELSE idx[d + (Len(idx) - Len(shape))]]

Pointwise(a, b, Op(_, _), where) ==
  IF IsError(a) THEN a
  ELSE IF IsError(b) THEN b
  ELSE IF ~Broadcastable(a.shape, b.shape) THEN Raise("RuntimeError", where)
  ELSE Build(BroadcastShape(a.shape, b.shape),
             LAMBDA idx: Op(At(a, BroadcastIdx(a.shape, idx)),
                            At(b, BroadcastIdx(b.shape, idx))))

add(a, b) == Pointwise(a, b, LAMBDA x, y: x + y, "add")

sub(a, b) == Pointwise(a, b, LAMBDA x, y: x - y, "sub")

\* torch.mul(a, b), a * b
mul(a, b) == Pointwise(a, b, LAMBDA x, y: x * y, "mul")

\* Tensor.permute(dims)
permute(t, dims) ==
  IF IsError(t) THEN t
  ELSE IF Len(dims) # Dim(t) THEN Raise("RuntimeError", "permute")
  ELSE Build([d \in 1..Dim(t) |-> t.shape[dims[d] + 1]],
             LAMBDA idx:
               At(t, [e \in 1..Dim(t) |->
                        idx[CHOOSE d \in 1..Dim(t) : dims[d] + 1 = e]]))

\* Tensor.t(): the transpose of a matrix
transpose(t) ==
  IF IsError(t) THEN t
  ELSE IF Dim(t) > 2 THEN Raise("RuntimeError", "t")
  ELSE IF Dim(t) < 2 THEN t
  ELSE permute(t, <<1, 0>>)

\* Tensor.sum(dim): the dimension is removed; a 0-dim tensor is its own sum
\* over dimension 0.
sum(t, dim) ==
  IF IsError(t) THEN t
  ELSE IF Dim(t) = 0 /\ dim = 0 THEN t
  ELSE IF dim >= Dim(t) THEN Raise("IndexError", "sum")
  ELSE Build([d \in 1..(Dim(t) - 1) |->
                IF d < dim + 1 THEN t.shape[d] ELSE t.shape[d + 1]],
             LAMBDA idx:
               SumTo(t.shape[dim + 1],
                     LAMBDA c:
                       At(t, [d \in 1..Dim(t) |->
                                IF d < dim + 1 THEN idx[d]
                                ELSE IF d = dim + 1 THEN c
                                ELSE idx[d - 1]])))

\* Tensor.squeeze(dim): the dimension is removed when its size is 1
squeeze(t, dim) ==
  IF IsError(t) THEN t
  ELSE IF dim >= Dim(t) THEN (IF Dim(t) = 0 /\ dim = 0 THEN t
                              ELSE Raise("IndexError", "squeeze"))
  ELSE IF t.shape[dim + 1] # 1 THEN t
  ELSE Tensor([d \in 1..(Dim(t) - 1) |->
                 IF d < dim + 1 THEN t.shape[d] ELSE t.shape[d + 1]],
              t.data)

\* Tensor.unsqueeze(dim)
unsqueeze(t, dim) ==
  IF IsError(t) THEN t
  ELSE IF dim > Dim(t) THEN Raise("IndexError", "unsqueeze")
  ELSE Tensor([d \in 1..(Dim(t) + 1) |->
                 IF d < dim + 1 THEN t.shape[d]
                 ELSE IF d = dim + 1 THEN 1 ELSE t.shape[d - 1]],
              t.data)

\* Tensor.expand_as(other): sizes of 1 are repeated, new leading dimensions added
expand_as(t, other) ==
  IF IsError(t) THEN t
  ELSE IF IsError(other) THEN other
  ELSE IF \/ Dim(t) > Dim(other)
          \/ \E d \in 1..Dim(other) :
               Aligned(t.shape, Dim(other), d) \notin {1, other.shape[d]}
    THEN Raise("RuntimeError", "expand_as")
  ELSE Build(other.shape, LAMBDA idx: At(t, BroadcastIdx(t.shape, idx)))

\* Tensor.repeat(reps): reps has at least as many entries as the tensor has
\* dimensions; the tensor's shape is aligned at the last dimension.
repeat(t, reps) ==
  IF IsError(t) THEN t
  ELSE IF Len(reps) < Dim(t) THEN Raise("RuntimeError", "repeat")
  ELSE LET r == Len(reps)
       IN  Build([d \in 1..r |-> Aligned(t.shape, r, d) * reps[d]],
                 LAMBDA idx:
                   At(t, [d \in 1..Dim(t) |->
                            idx[d + (r - Dim(t))] % t.shape[d]]))

\* torch.mm(a, b): both are matrices
mm(a, b) ==
  IF IsError(a) THEN a
  ELSE IF IsError(b) THEN b
  ELSE IF Dim(a) # 2 \/ Dim(b) # 2 THEN Raise("RuntimeError", "mm")
  ELSE IF a.shape[2] # b.shape[1] THEN Raise("RuntimeError", "mm")
  ELSE Build(<<a.shape[1], b.shape[2]>>,
             LAMBDA idx:
               SumTo(a.shape[2],
                     LAMBDA c: At(a, <<idx[1], c>>) * At(b, <<c, idx[2]>>)))

\* torch.addmm(bias, a, b): bias, broadcast, plus the matrix product
addmm(bias, a, b) ==
  IF ~IsTensor(bias) /\ ~IsError(bias) THEN Raise("TypeError", "addmm")
  ELSE IF IsError(mm(a, b)) THEN mm(a, b)
  ELSE IF IsError(bias) THEN bias
  ELSE IF \/ Dim(bias) > 2
          \/ BroadcastShape(bias.shape, mm(a, b).shape) # mm(a, b).shape
          \/ ~Broadcastable(bias.shape, mm(a, b).shape)
    THEN Raise("RuntimeError", "addmm")
  ELSE add(mm(a, b), bias)

\* torch.matmul(a, b): a 1-D a is a row and a 1-D b a column, whose added
\* dimension is removed from the result; the dimensions before the last two
\* are batch dimensions, broadcast against each other.
matmul(a, b) ==
  IF IsError(a) THEN a
  ELSE IF IsError(b) THEN b
  ELSE IF Dim(a) = 0 \/ Dim(b) = 0 THEN Raise("RuntimeError", "matmul")
  ELSE
    LET sa == IF Dim(a) = 1 THEN <<1>> \o a.shape ELSE a.shape
        sb == IF Dim(b) = 1 THEN b.shape \o <<1>> ELSE b.shape
        ba == SubSeq(sa, 1, Len(sa) - 2)
        bb == SubSeq(sb, 1, Len(sb) - 2)
        n == sa[Len(sa) - 1]
        m == sa[Len(sa)]
        p == sb[Len(sb)]
    IN  IF m # sb[Len(sb) - 1] \/ ~Broadcastable(ba, bb)
          THEN Raise("RuntimeError", "matmul")
        ELSE
          LET batch == BroadcastShape(ba, bb)
              nb == Len(batch)
              shape == [d \in 1..nb |-> batch[d]]
                       \o (IF Dim(a) = 1 THEN <<>> ELSE <<n>>)
                       \o (IF Dim(b) = 1 THEN <<>> ELSE <<p>>)
          IN  Build(shape,
                    LAMBDA idx:
                      LET bidx == SubSeq(idx, 1, nb)
                          row == IF Dim(a) = 1 THEN 0 ELSE idx[nb + 1]
                          col == IF Dim(b) = 1 THEN 0 ELSE idx[Len(idx)]
                      IN  SumTo(m,
                                LAMBDA c:
                                  At(a, IF Dim(a) = 1 THEN <<c>>
                                        ELSE BroadcastIdx(ba, bidx) \o <<row, c>>)
                                  * At(b, IF Dim(b) = 1 THEN <<c>>
                                          ELSE BroadcastIdx(bb, bidx) \o <<c, col>>)))

-----------------------------------------------------------------------------
(* Symbolic real values.  The square root, the division and the added eps  *)
(* of get_modulus and get_normalized are kept as terms over the integers.  *)

Sqrt(n) == <<"sqrt", n>>

PlusEps(m, eps) == <<"plus", m, eps>>

Quot(x, d) == <<"div", x, d>>

\* torch.sqrt(t)
sqrt(t) ==
  IF IsError(t) THEN t ELSE Tensor(t.shape, [n \in 1..Len(t.data) |-> Sqrt(t.data[n])])

\* t + eps for a Python float eps
add_scalar(t, eps) ==
  IF IsError(t) THEN t
  ELSE Tensor(t.shape, [n \in 1..Len(t.data) |-> PlusEps(t.data[n], eps)])

\* a / b
div(a, b) == Pointwise(a, b, LAMBDA x, y: Quot(x, y), "div")

\* The value of a function body: the exception of the first statement that
\* raised, in program order, or else the returned value.
Body(statements, returned) ==
  IF FirstError(statements) # None THEN FirstError(statements) ELSE returned

-----------------------------------------------------------------------------
(* Quaternion view *)

check_input(input) ==
  IF Dim(input) \notin {2, 3} THEN Raise("RuntimeError", "check_input")
  ELSE IF input.shape[Dim(input)] % 4 # 0 THEN Raise("RuntimeError", "check_input")
  ELSE None

nb_hidden(input) == input.shape[Dim(input)]

get_r(input) ==
  IF IsError(input) THEN input
  ELSE IF IsError(check_input(input)) THEN check_input(input)
  ELSE IF Dim(input) = 2 THEN narrow(input, 1, 0, nb_hidden(input) \div 4)
  ELSE narrow(input, 2, 0, nb_hidden(input) \div 4)

get_i(input) ==
  IF IsError(input) THEN input
  ELSE IF IsError(check_input(input)) THEN check_input(input)
  ELSE IF Dim(input) = 2
    THEN narrow(input, 1, nb_hidden(input) \div 4, nb_hidden(input) \div 4)
  ELSE narrow(input, 2, nb_hidden(input) \div 4, nb_hidden(input) \div 4)

get_j(input) ==
  IF IsError(input) THEN input
  ELSE IF IsError(check_input(input)) THEN check_input(input)
  ELSE IF Dim(input) = 2
    THEN narrow(input, 1, nb_hidden(input) \div 2, nb_hidden(input) \div 4)
  ELSE narrow(input, 2, nb_hidden(input) \div 2, nb_hidden(input) \div 4)

get_k(input) ==
  IF IsError(input) THEN input
  ELSE IF IsError(check_input(input)) THEN check_input(input)
  ELSE IF Dim(input) = 2
    THEN narrow(input, 1, nb_hidden(input) - nb_hidden(input) \div 4,
                nb_hidden(input) \div 4)
  ELSE narrow(input, 2, nb_hidden(input) - nb_hidden(input) \div 4,
              nb_hidden(input) \div 4)

\* r * r + i * i + j * j + k * k of get_modulus
SquaredModulus(input) ==
  LET r == get_r(input)
      i == get_i(input)
      j == get_j(input)
      k == get_k(input)
  IN  add(add(add(mul(r, r), mul(i, i)), mul(j, j)), mul(k, k))

get_modulus(input, vector_form) ==
  IF IsError(check_input(input)) THEN check_input(input)
  ELSE IF vector_form THEN sqrt(SquaredModulus(input))
  ELSE sqrt(sum(SquaredModulus(input), 0))

get_normalized(input, eps) ==
  IF IsError(check_input(input)) THEN check_input(input)
  ELSE LET data_modulus == get_modulus(input, FALSE)
           data_modulus_repeated ==
             IF Dim(input) = 2 THEN repeat(data_modulus, <<1, 4>>)
             ELSE repeat(data_modulus, <<1, 1, 4>>)
       IN  div(input, add_scalar(expand_as(data_modulus_repeated, input), eps))

-----------------------------------------------------------------------------
(* Quaternion linear operator *)

\* The kernel with each row's blocks set side by side and the four rows
\* stacked (the two concatenation axes exchanged).
cat_kernels_rows_stacked(r_weight, i_weight, j_weight, k_weight) ==
  LET cat_kernels_4_r ==
        cat(<<r_weight, neg(i_weight), neg(j_weight), neg(k_weight)>>, 1)
      cat_kernels_4_i ==
        cat(<<i_weight, r_weight, neg(k_weight), j_weight>>, 1)
      cat_kernels_4_j ==
        cat(<<j_weight, k_weight, r_weight, neg(i_weight)>>, 1)
      cat_kernels_4_k ==
        cat(<<k_weight, neg(j_weight), i_weight, r_weight>>, 1)
  IN  cat(<<cat_kernels_4_r, cat_kernels_4_i, cat_kernels_4_j, cat_kernels_4_k>>, 0)

\* The kernel with the minus sign of cat_kernels_4_k's j block dropped.
cat_kernels_sign_dropped(r_weight, i_weight, j_weight, k_weight) ==
  LET cat_kernels_4_r ==
        cat(<<r_weight, neg(i_weight), neg(j_weight), neg(k_weight)>>, 0)
      cat_kernels_4_i ==
        cat(<<i_weight, r_weight, neg(k_weight), j_weight>>, 0)
      cat_kernels_4_j ==
        cat(<<j_weight, k_weight, r_weight, neg(i_weight)>>, 0)
      cat_kernels_4_k ==
        cat(<<k_weight, j_weight, i_weight, r_weight>>, 0)
  IN  cat(<<cat_kernels_4_r, cat_kernels_4_i, cat_kernels_4_j, cat_kernels_4_k>>, 1)

\* cat_kernels_4_quaternion, built alike by quaternion_linear, by forward and
\* (before its permute) by backward.
cat_kernels_4_quaternion(r_weight, i_weight, j_weight, k_weight) ==
  LET cat_kernels_4_r ==
        cat(<<r_weight, neg(i_weight), neg(j_weight), neg(k_weight)>>, 0)
      cat_kernels_4_i ==
        cat(<<i_weight, r_weight, neg(k_weight), j_weight>>, 0)
      cat_kernels_4_j ==
        cat(<<j_weight, k_weight, r_weight, neg(i_weight)>>, 0)
      cat_kernels_4_k ==
        cat(<<k_weight, neg(j_weight), i_weight, r_weight>>, 0)
  IN  cat(<<cat_kernels_4_r, cat_kernels_4_i, cat_kernels_4_j, cat_kernels_4_k>>, 1)

\* output + bias for a tensor bias, or for Python's True (the scalar 1)
add_bias(output, bias) ==
  IF bias.kind = "True" THEN add(output, Tensor(<<>>, <<1>>)) ELSE add(output, bias)

\* The common tail of quaternion_linear and forward.
apply_kernel(input, kernel, bias) ==
  IF Dim(input) = 2 THEN
    IF bias # None THEN addmm(bias, input, kernel) ELSE mm(input, kernel)
  ELSE
    IF bias # None THEN add_bias(matmul(input, kernel), bias)
    ELSE matmul(input, kernel)

quaternion_linear(input, r_weight, i_weight, j_weight, k_weight, bias) ==
  LET kernel == cat_kernels_4_quaternion(r_weight, i_weight, j_weight, k_weight)
  IN  Body(<<kernel>>, apply_kernel(input, kernel, bias))

\* ctx.save_for_backward of QuaternionLinearFunction.forward, with the
\* needs_input_grad the autograd engine derives from the arguments.
SavedContext(fn, tensors, needs_input_grad) ==
  [fn |-> fn, saved_tensors |-> tensors, needs_input_grad |-> needs_input_grad]

NoContext == [fn |-> "none", saved_tensors |-> <<>>, needs_input_grad |-> <<>>]

QuaternionLinearFunction_forward(input, r_weight, i_weight, j_weight, k_weight, bias) ==
  LET kernel == cat_kernels_4_quaternion(r_weight, i_weight, j_weight, k_weight)
  IN  Body(<<check_input(input), kernel>>, apply_kernel(input, kernel, bias))

\* input_mat of backward
input_mat(input) ==
  LET r == get_r(input)
      i == get_i(input)
      j == get_j(input)
      k == get_k(input)
      input_r == cat(<<r, neg(i), neg(j), neg(k)>>, 0)
      input_i == cat(<<i, r, neg(k), j>>, 0)
      input_j == cat(<<j, k, r, neg(i)>>, 0)
      input_k == cat(<<k, neg(j), i, r>>, 0)
  IN  Body(<<r, i, j, k, input_r, input_i, input_j, input_k>>,
           cat(<<input_r, input_i, input_j, input_k>>, 1))

\* grad_mat with the minus sign of input_i's last block dropped.
grad_mat_sign_dropped(grad_output) ==
  LET r == get_r(grad_output)
      i == get_i(grad_output)
      j == get_j(grad_output)
      k == get_k(grad_output)
      input_r == cat(<<r, i, j, k>>, 1)
      input_i == cat(<<neg(i), r, k, j>>, 1)
      input_j == cat(<<neg(j), neg(k), r, i>>, 1)
      input_k == cat(<<neg(k), j, neg(i), r>>, 1)
  IN  Body(<<r, i, j, k, input_r, input_i, input_j, input_k>>,
           cat(<<input_r, input_i, input_j, input_k>>, 0))

\* grad_mat of backward
grad_mat(grad_output) ==
  LET r == get_r(grad_output)
      i == get_i(grad_output)
      j == get_j(grad_output)
      k == get_k(grad_output)
      input_r == cat(<<r, i, j, k>>, 1)
      input_i == cat(<<neg(i), r, k, neg(j)>>, 1)
      input_j == cat(<<neg(j), neg(k), r, i>>, 1)
      input_k == cat(<<neg(k), j, neg(i), r>>, 1)
  IN  Body(<<r, i, j, k, input_r, input_i, input_j, input_k>>,
           cat(<<input_r, input_i, input_j, input_k>>, 0))

\* grad_weight of backward, before it is cut into the four blocks
grad_weight(grad_output, input) ==
  permute(mm(permute(grad_mat(grad_output), <<1, 0>>), input_mat(input)), <<1, 0>>)

\* Tensor.size(dim) raises an IndexError for a dim outside the rank.
size(t, dim) ==
  IF dim >= Dim(t) THEN Raise("IndexError", "size") ELSE t.shape[dim + 1]

\* Block c (0: r, 1: i, 2: j, 3: k) cut out of grad_weight, after
\* grad_weight and the two unit sizes (read from r_weight) were computed.
grad_weight_block(gw, r_weight, c) ==
  IF IsError(gw) THEN gw
  ELSE IF Dim(r_weight) < 1 THEN size(r_weight, 0)
  ELSE IF Dim(r_weight) < 2 THEN size(r_weight, 1)
  ELSE LET unit_size_x == size(r_weight, 0)
           unit_size_y == size(r_weight, 1)
       IN  narrow(narrow(gw, 0, 0, unit_size_x), 1, unit_size_y * c, unit_size_y)

QuaternionLinearFunction_backward(ctx, grad_output) ==
  LET input    == ctx.saved_tensors[1]
      r_weight == ctx.saved_tensors[2]
      i_weight == ctx.saved_tensors[3]
      j_weight == ctx.saved_tensors[4]
      k_weight == ctx.saved_tensors[5]
      needs    == ctx.needs_input_grad
      cat_kernels_4_quaternion_T ==
        permute(cat_kernels_4_quaternion(r_weight, i_weight, j_weight, k_weight),
                <<1, 0>>)
      imat == input_mat(input)
      gmat == grad_mat(grad_output)
      grad_input == IF needs[1] THEN mm(grad_output, cat_kernels_4_quaternion_T)
                    ELSE None
      gw == IF needs[2] THEN grad_weight(grad_output, input) ELSE None
      grad_weight_r == IF needs[2] THEN grad_weight_block(gw, r_weight, 0) ELSE None
      grad_weight_i == IF needs[2] THEN grad_weight_block(gw, r_weight, 1) ELSE None
      grad_weight_j == IF needs[2] THEN grad_weight_block(gw, r_weight, 2) ELSE None
      grad_weight_k == IF needs[2] THEN grad_weight_block(gw, r_weight, 3) ELSE None
      grad_bias == IF needs[6] THEN squeeze(sum(grad_output, 0), 0) ELSE None
  IN  Body(<<cat_kernels_4_quaternion_T, imat, gmat, grad_input, gw,
             grad_weight_r, grad_weight_i, grad_weight_j, grad_weight_k, grad_bias>>,
           Tuple(<<grad_input, grad_weight_r, grad_weight_i, grad_weight_j,
                   grad_weight_k, grad_bias>>))

-----------------------------------------------------------------------------
(* Plain linear operator *)

LinearFunction_forward(input, weight, bias) ==
  LET product == IF Dim(input) = 3 THEN matmul(input, transpose(weight))
                 ELSE mm(input, transpose(weight))
  IN  IF bias # None
        THEN Body(<<product>>, add(product, expand_as(unsqueeze(bias, 0), product)))
      ELSE product

LinearFunction_backward(ctx, grad_output) ==
  LET input  == ctx.saved_tensors[1]
      weight == ctx.saved_tensors[2]
      bias   == ctx.saved_tensors[3]
      needs  == ctx.needs_input_grad
      grad_input ==
        IF ~needs[1] THEN None
        ELSE IF Dim(input) = 3 THEN sum(matmul(grad_output, weight), 0)
        ELSE mm(grad_output, weight)
      grad_wt ==
        IF ~needs[2] THEN None
        ELSE IF Dim(input) = 3
          THEN sum(matmul(permute(grad_output, <<0, 2, 1>>), input), 0)
        ELSE mm(transpose(grad_output), input)
      grad_bias ==
        IF ~(bias # None /\ needs[3]) THEN None
        ELSE IF Dim(input) = 3 THEN squeeze(sum(sum(grad_output, 1), 0), 0)
        ELSE squeeze(sum(grad_output, 0), 0)
  IN  Body(<<grad_input, grad_wt, grad_bias>>,
           Tuple(<<grad_input, grad_wt, grad_bias>>))

-----------------------------------------------------------------------------
(* Hamilton product *)

hamilton_product(q0, q1) ==
  LET q1_r == get_r(q1)
      q1_i == get_i(q1)
      q1_j == get_j(q1)
      q1_k == get_k(q1)
      r_base == mul(q0, q1)
      r == sub(sub(sub(get_r(r_base), get_i(r_base)), get_j(r_base)), get_k(r_base))
      i_base == mul(q0, cat(<<q1_i, q1_r, q1_k, q1_j>>, 1))
      i == sub(add(add(get_r(i_base), get_i(i_base)), get_j(i_base)), get_k(i_base))
      j_base == mul(q0, cat(<<q1_j, q1_k, q1_r, q1_i>>, 1))
      j == add(add(sub(get_r(j_base), get_i(j_base)), get_j(j_base)), get_k(j_base))
      k_base == mul(q0, cat(<<q1_k, q1_j, q1_i, q1_r>>, 1))
      k == add(sub(add(get_r(k_base), get_i(k_base)), get_j(k_base)), get_k(k_base))
  IN  Body(<<q1_r, q1_i, q1_j, q1_k, r_base, r, i_base, i, j_base, j, k_base, k>>,
           cat(<<r, i, j, k>>, 1))

-----------------------------------------------------------------------------
(* Random sources and weight initializers.  A numpy RandomState is a       *)
(* deterministic generator: its seed and the number of samples drawn fix   *)
(* every sample it will return, and sources of different seeds are         *)
(* independent streams.  A source is modelled by its seed and a            *)
(* full-period congruential generator over 0..RngPeriod-1; a uniform       *)
(* sample is kept as the term Sample(state) of the state that produced it, *)
(* and the arithmetic on samples as terms.                                 *)

\* Number of states of a random source.
RngPeriod == 64

\* RandomState(seed)
RandomState(seed) == [seed |-> seed, x |-> seed % RngPeriod]

RngStep(state) == [state EXCEPT !.x = (5 * @ + 3) % RngPeriod]

RECURSIVE RngAfter(_, _)
RngAfter(state, n) == IF n = 0 THEN state ELSE RngStep(RngAfter(state, n - 1))

Sample(state) == <<"sample", state.seed, state.x>>

\* source.uniform(low, high, n): n samples, the source advancing by n.
uniform(state, low, high, n) ==
  [k \in 1..n |-> <<"uniform", low, high, Sample(RngAfter(state, k))>>]

\* s of both initializers
criterion_scale(in_features, out_features, criterion) ==
  IF criterion = "glorot" THEN <<"rsqrt", 2 * (in_features + out_features)>>
  ELSE IF criterion = "he" THEN <<"rsqrt", 2 * in_features>>
  ELSE Raise("ValueError", "criterion")

\* sqrt of the sum of the squares, plus 0.0001
norm(components) == <<"plus", <<"sqrt", <<"sumsq", components>>>>, "0.0001">>

Times(a, b) == <<"mul", a, b>>

\* What a call returns, with the state it leaves numpy's process-wide random
\* source in.
Outcome(value, global) == [value |-> value, np_random |-> global]

unitary_init(in_features, out_features, rng, criterion, np_random) ==
  LET s == criterion_scale(in_features, out_features, criterion)
      kernel_shape == <<in_features, out_features>>
      number_of_weights == in_features * out_features
      v_r == uniform(np_random, 0, 1, number_of_weights)
      v_i == uniform(RngAfter(np_random, number_of_weights), 0, 1, number_of_weights)
      v_j == uniform(RngAfter(np_random, 2 * number_of_weights), 0, 1, number_of_weights)
      v_k == uniform(RngAfter(np_random, 3 * number_of_weights), 0, 1, number_of_weights)
      unit(v) ==
        [e \in 1..number_of_weights |->
           Quot(v[e], norm(<<v_r[e], v_i[e], v_j[e], v_k[e]>>))]
      weight(v) ==
        Tensor(kernel_shape, [e \in 1..number_of_weights |-> Times(unit(v)[e], s)])
  IN  IF criterion \notin {"glorot", "he"} THEN Outcome(s, np_random)
      ELSE Outcome(Tuple(<<weight(v_r), weight(v_i), weight(v_j), weight(v_k)>>),
                   RngAfter(np_random, 4 * number_of_weights))

quaternion_init(in_features, out_features, rng, criterion, np_random) ==
  LET s == criterion_scale(in_features, out_features, criterion)
      local_rng == RandomState(123)
      kernel_shape == <<in_features, out_features>>
      number_of_weights == in_features * out_features
      v_i == uniform(np_random, 0, 1, number_of_weights)
      v_j == uniform(RngAfter(np_random, number_of_weights), 0, 1, number_of_weights)
      v_k == uniform(RngAfter(np_random, 2 * number_of_weights), 0, 1, number_of_weights)
      unit(v) ==
        [e \in 1..number_of_weights |->
           Quot(v[e], norm(<<v_i[e], v_j[e], v_k[e]>>))]
      modulus == uniform(local_rng, <<"neg", s>>, s, number_of_weights)
      phase == uniform(RngAfter(local_rng, number_of_weights), "-pi", "pi",
                       number_of_weights)
      weight_r ==
        Tensor(kernel_shape,
               [e \in 1..number_of_weights |-> Times(modulus[e], <<"cos", phase[e]>>)])
      weight(v) ==
        Tensor(kernel_shape,
               [e \in 1..number_of_weights |->
                  Times(Times(modulus[e], unit(v)[e]), <<"sin", phase[e]>>)])
  IN  IF criterion \notin {"glorot", "he"} THEN Outcome(s, np_random)
      ELSE Outcome(Tuple(<<weight_r, weight(v_i), weight(v_j), weight(v_k)>>),
                   RngAfter(np_random, 3 * number_of_weights))

\* The type of the parameters affect_init is given (torch's default).
ParameterType == "torch.FloatTensor"

\* torch.from_numpy(a).type_as(other): the elements converted to other's type
type_as(t, other) ==
  Tensor(t.shape, [n \in 1..Len(t.data) |-> <<"type_as", ParameterType, t.data[n]>>])

\* What a call of affect_init returns, with the state it leaves numpy's
\* process-wide random source and the four parameters in, and what init_func
\* returned to it (None when it was not called).
Effect(value, global, parameters, drawn) ==
  [value |-> value, np_random |-> global, weights |-> parameters, drawn |-> drawn]

affect_init(r_weight, i_weight, j_weight, k_weight, init_func, rng, init_criterion, np_random) ==
  LET parameters == <<r_weight, i_weight, j_weight, k_weight>>
      out == IF init_func = "unitary_init"
               THEN unitary_init(r_weight.shape[1], r_weight.shape[2], rng,
                                 init_criterion, np_random)
               ELSE quaternion_init(r_weight.shape[1], r_weight.shape[2], rng,
                                    init_criterion, np_random)
  IN  IF \/ r_weight.shape # i_weight.shape
         \/ r_weight.shape # j_weight.shape
         \/ r_weight.shape # k_weight.shape
        THEN Effect(Raise("ValueError", "affect_init"), np_random, parameters, None)
      ELSE IF Dim(r_weight) # 2
        THEN Effect(Raise("Exception", "affect_init"), np_random, parameters, None)
      ELSE IF IsError(out.value)
        THEN Effect(out.value, out.np_random, parameters, out.value)
      ELSE Effect(None, out.np_random,
                  [n \in 1..4 |-> type_as(out.value.data[n], parameters[n])],
                  out.value)

-----------------------------------------------------------------------------
(* Bounds and the tensors that calls are made with *)

\* Largest product of the sizes B (batch), S (sequence), F (quaternions in)
\* and G (quaternions out) of a call.
MaxVolume == 2

\* Largest in_features and out_features of an initializer call.
MaxFeatures == 2

\* Largest seed of a random source.
MaxSeed == 1

\* Number of initializer calls of a behaviour.
MaxCalls == 2

\* A tensor with elements of both signs and several magnitudes.
Dense(shape) ==
  Tensor(shape, [n \in 1..Prod(shape) |->
                   IF n % 2 = 0 THEN 0 - (n % 3) - 1 ELSE (n % 5) + 1])

OneHot(shape, p, v) ==
  Tensor(shape, [n \in 1..Prod(shape) |-> IF n = p THEN v ELSE 0])

Ones(shape) == Tensor(shape, [n \in 1..Prod(shape) |-> 1])

\* The tensors of a shape that calls are made with: the dense one and every
\* one-hot one (a bilinear map is fixed by its values on these).
Catalog(shape) ==
  {Dense(shape)} \cup {OneHot(shape, p, 1) : p \in 1..Prod(shape)}

\* <<B, S, F, G>> of a call; S is 1 for a rank-2 input.
Sizes ==
  {sz \in (1..MaxVolume) \X (1..MaxVolume) \X (1..MaxVolume) \X (1..MaxVolume) :
     sz[1] * sz[2] * sz[3] * sz[4] <= MaxVolume}

\* The shape of a quaternion tensor of the given rank with H quaternions.
QuaternionShape(rank, B, S, H) ==
  IF rank = 2 THEN <<B, 4 * H>> ELSE <<B, S, 4 * H>>

GoodShapes ==
  {QuaternionShape(rank, sz[1], sz[2], sz[3]) :
     rank \in {2, 3}, sz \in {x \in Sizes : x[4] = 1}}

\* Shapes that check_input rejects: a rank outside {2, 3}, or a last
\* dimension that is no multiple of 4.
BadShapes ==
  UNION {{ <<4 * h>>, <<1, 1, 1, 4 * h>>, <<1, 4 * h + 2>>, <<1, 1, 4 * h + 2>>,
           <<4 * h + 2>> } : h \in 1..MaxVolume}

\* The tensors of a malformed shape that calls are made with.
BadInputs == {Dense(shape) : shape \in BadShapes}

BadInput(t) == Dim(t) \notin {2, 3} \/ t.shape[Dim(t)] % 4 # 0

\* The four weight blocks r, i, j, k of shape [F, G], cut out of one [4, F, G]
\* tensor.
WeightBlocks(w) ==
  [c \in 1..4 |->
     Tensor(<<w.shape[2], w.shape[3]>>,
            SubSeq(w.data, (c - 1) * w.shape[2] * w.shape[3] + 1,
                   c * w.shape[2] * w.shape[3]))]

\* needs_input_grad of a call: a flag per argument; an absent bias needs none.
FlagSets(n, bias) ==
  {f \in [1..n -> BOOLEAN] : bias = None => ~f[n]}

AllFlags(n, bias) == [s \in 1..n |-> s < n \/ bias # None]

FlagChoices(n, dense, bias) ==
  IF dense THEN FlagSets(n, bias) ELSE {AllFlags(n, bias)}

\* eps of get_normalized (its default)
DefaultEps == "0.0001"

-----------------------------------------------------------------------------
(* State *)

VARIABLES
  op,         \* the operation called last
  args,       \* its arguments
  ret,        \* what it returned, or the exception it raised
  ctx,        \* the context saved by the forward call in flight
  np_random,  \* the state of numpy's process-wide random source
  log,        \* the initializer calls made, with what each returned
  weights     \* the four parameters given to affect_init, as it left them

vars == <<op, args, ret, ctx, np_random, log, weights>>

Init ==
  /\ op = "none"
  /\ args = <<>>
  /\ ret = None
  /\ ctx = NoContext
  /\ np_random = RandomState(0)
  /\ log = <<>>
  /\ weights = <<>>

\* Every behaviour is one call made on the freshly loaded module, followed,
\* for a forward call, by the matching backward call.
Returns(name, arguments, value) ==
  /\ op' = name
  /\ args' = arguments
  /\ ret' = value
  /\ UNCHANGED <<np_random, log, weights>>

ViewInputs == UNION {Catalog(shape) : shape \in GoodShapes} \cup BadInputs

Call_get_r ==
  /\ op = "none"
  /\ \E input \in ViewInputs :
       /\ Returns("get_r", <<input>>, get_r(input))
       /\ ctx' = NoContext

Call_get_i ==
  /\ op = "none"
  /\ \E input \in ViewInputs :
       /\ Returns("get_i", <<input>>, get_i(input))
       /\ ctx' = NoContext

Call_get_j ==
  /\ op = "none"
  /\ \E input \in ViewInputs :
       /\ Returns("get_j", <<input>>, get_j(input))
       /\ ctx' = NoContext

Call_get_k ==
  /\ op = "none"
  /\ \E input \in ViewInputs :
       /\ Returns("get_k", <<input>>, get_k(input))
       /\ ctx' = NoContext

Call_get_modulus ==
  /\ op = "none"
  /\ \E input \in ViewInputs, vector_form \in BOOLEAN :
       /\ Returns("get_modulus", <<input, vector_form>>,
                  get_modulus(input, vector_form))
       /\ ctx' = NoContext

Call_get_normalized ==
  /\ op = "none"
  /\ \E input \in ViewInputs :
       /\ Returns("get_normalized", <<input, DefaultEps>>,
                  get_normalized(input, DefaultEps))
       /\ ctx' = NoContext

\* Two operands of one shape.
Call_hamilton_product ==
  /\ op = "none"
  /\ \E q0 \in ViewInputs, q1 \in ViewInputs :
       /\ q0.shape = q1.shape
       /\ Returns("hamilton_product", <<q0, q1>>, hamilton_product(q0, q1))
       /\ ctx' = NoContext

\* The shapes of the input of a quaternion linear call of sizes sz.
LinearInputShapes(sz) ==
  {QuaternionShape(rank, sz[1], sz[2], sz[3]) :
     rank \in (IF sz[2] = 1 THEN {2, 3} ELSE {3})}

\* The input and the [4, F, G] weight tensor of a quaternion linear call:
\* well-formed inputs with every weight of the catalog, malformed inputs with
\* the dense weight.
LinearOperands ==
  UNION {Catalog(shape) \X Catalog(<<4, sz[3], sz[4]>>) :
           sz \in Sizes, shape \in UNION {LinearInputShapes(x) : x \in Sizes}}
  \cup (BadInputs \X {Dense(<<4, sz[3], sz[4]>>) : sz \in Sizes})

WellFormedOperands(xw) ==
  \E sz \in Sizes :
    /\ xw[1].shape \in LinearInputShapes(sz)
    /\ xw[2].shape = <<4, sz[3], sz[4]>>

Call_quaternion_linear ==
  /\ op = "none"
  /\ \E xw \in LinearOperands :
       \E bias \in {None, PyTrue, Dense(<<4 * xw[2].shape[3]>>)} :
         /\ BadInput(xw[1]) \/ WellFormedOperands(xw)
         /\ Returns("quaternion_linear",
                    <<xw[1], WeightBlocks(xw[2])[1], WeightBlocks(xw[2])[2],
                      WeightBlocks(xw[2])[3], WeightBlocks(xw[2])[4], bias>>,
                    quaternion_linear(xw[1], WeightBlocks(xw[2])[1],
                                      WeightBlocks(xw[2])[2], WeightBlocks(xw[2])[3],
                                      WeightBlocks(xw[2])[4], bias))
         /\ ctx' = NoContext

IsDense(t) == t = Dense(t.shape)

QLF_forward ==
  /\ op = "none"
  /\ \E xw \in LinearOperands :
       \E bias \in {None, Dense(<<4 * xw[2].shape[3]>>)} :
         \E needs \in FlagChoices(6, IsDense(xw[1]) /\ IsDense(xw[2])
                                     /\ ~BadInput(xw[1]), bias) :
           LET tensors == <<xw[1], WeightBlocks(xw[2])[1], WeightBlocks(xw[2])[2],
                            WeightBlocks(xw[2])[3], WeightBlocks(xw[2])[4], bias>>
           IN  /\ BadInput(xw[1]) \/ WellFormedOperands(xw)
               /\ Returns("QuaternionLinearFunction.forward", tensors,
                          QuaternionLinearFunction_forward(
                            tensors[1], tensors[2], tensors[3], tensors[4],
                            tensors[5], tensors[6]))
               /\ ctx' = SavedContext("QuaternionLinearFunction", tensors, needs)

\* The gradients a backward call is made with: every one of the catalog when
\* every argument needs a gradient and the input or the weight is dense, and
\* the dense one and the one of ones otherwise.
Gradients(shape, wide) ==
  IF wide THEN Catalog(shape) \cup {Ones(shape)} ELSE {Dense(shape), Ones(shape)}

\* The autograd engine calls backward with a gradient of the forward
\* output's shape.
QLF_backward ==
  /\ op = "QuaternionLinearFunction.forward"
  /\ IsTensor(ret)
  /\ \E grad_output \in
          Gradients(ret.shape,
                    /\ ctx.needs_input_grad = AllFlags(6, args[6])
                    /\ IsDense(args[1]) \/ IsDense(args[2]) \/ IsDense(args[3])) :
       Returns("QuaternionLinearFunction.backward", <<grad_output>>,
               QuaternionLinearFunction_backward(ctx, grad_output))
  /\ UNCHANGED ctx

LinearFunctionOperands ==
  UNION {Catalog(shape) \X Catalog(<<sz[4], sz[3]>>) :
           sz \in Sizes,
           shape \in UNION {{<<x[1], x[2], x[3]>>} \cup
                              (IF x[2] = 1 THEN {<<x[1], x[3]>>} ELSE {}) :
                            x \in Sizes}}

LF_forward ==
  /\ op = "none"
  /\ \E xw \in LinearFunctionOperands :
       \E bias \in {None, Dense(<<xw[2].shape[1]>>)} :
         \E needs \in FlagChoices(3, IsDense(xw[1]) /\ IsDense(xw[2]), bias) :
           /\ xw[1].shape[Dim(xw[1])] = xw[2].shape[2]
           /\ Prod(xw[1].shape) * xw[2].shape[1] <= MaxVolume
           /\ Returns("LinearFunction.forward", <<xw[1], xw[2], bias>>,
                      LinearFunction_forward(xw[1], xw[2], bias))
           /\ ctx' = SavedContext("LinearFunction", <<xw[1], xw[2], bias>>, needs)

LF_backward ==
  /\ op = "LinearFunction.forward"
  /\ IsTensor(ret)
  /\ \E grad_output \in
          Gradients(ret.shape, ctx.needs_input_grad = AllFlags(3, args[3])) :
       Returns("LinearFunction.backward", <<grad_output>>,
               LinearFunction_backward(ctx, grad_output))
  /\ UNCHANGED ctx

Next ==
  \/ Call_get_r
  \/ Call_get_i
  \/ Call_get_j
  \/ Call_get_k
  \/ Call_get_modulus
  \/ Call_get_normalized
  \/ Call_hamilton_product
  \/ Call_quaternion_linear
  \/ QLF_forward
  \/ QLF_backward
  \/ LF_forward
  \/ LF_backward

Spec == Init /\ [][Next]_vars

-----------------------------------------------------------------------------
(* Initializer calls: a behaviour is a sequence of calls in one process,   *)
(* whose process-wide random source was seeded at its start.               *)

InitRandom ==
  /\ op = "none"
  /\ args = <<>>
  /\ ret = None
  /\ ctx = NoContext
  /\ np_random \in {RandomState(seed) : seed \in 0..MaxSeed}
  /\ log = <<>>
  /\ weights = <<>>

Criteria == {"glorot", "he", "lecun"}

\* A call with a caller-supplied rng freshly seeded with seed.
Initializes(name, in_features, out_features, seed, criterion, outcome) ==
  /\ Len(log) < MaxCalls
  /\ op' = name
  /\ args' = <<in_features, out_features, RandomState(seed), criterion>>
  /\ ret' = outcome.value
  /\ np_random' = outcome.np_random
  /\ log' = Append(log, [fn |-> name, in_features |-> in_features,
                         out_features |-> out_features, rng |-> RandomState(seed),
                         criterion |-> criterion, ret |-> outcome.value])
  /\ UNCHANGED <<ctx, weights>>

Call_unitary_init ==
  \E in_features \in 1..MaxFeatures, out_features \in 1..MaxFeatures,
     seed \in 0..MaxSeed, criterion \in Criteria :
    Initializes("unitary_init", in_features, out_features, seed, criterion,
                unitary_init(in_features, out_features, RandomState(seed),
                             criterion, np_random))

Call_quaternion_init ==
  \E in_features \in 1..MaxFeatures, out_features \in 1..MaxFeatures,
     seed \in 0..MaxSeed, criterion \in Criteria :
    Initializes("quaternion_init", in_features, out_features, seed, criterion,
                quaternion_init(in_features, out_features, RandomState(seed),
                                criterion, np_random))

\* The parameters affect_init is called with: four matrices of one size
\* (their values are never read), and the malformed ones its checks are for.
Parameters ==
  {<<Ones(shape), Ones(shape), Ones(shape), Ones(shape)>> :
     shape \in (1..MaxFeatures) \X (1..MaxFeatures)}
  \cup {<<Ones(<<1, 1>>), Ones(<<2, 1>>), Ones(<<1, 1>>), Ones(<<1, 1>>)>>,
        <<Ones(<<1, 1>>), Ones(<<1, 1>>), Ones(<<1, 1>>), Ones(<<1>>)>>,
        <<Ones(<<2>>), Ones(<<2>>), Ones(<<2>>), Ones(<<2>>)>>,
        <<Ones(<<1, 1, 1>>), Ones(<<1, 1, 1>>), Ones(<<1, 1, 1>>), Ones(<<1, 1, 1>>)>>}

\* A call of affect_init; the call it makes of init_func is an initializer
\* call like the direct ones.
Call_affect_init ==
  \E parameters \in Parameters, init_func \in {"unitary_init", "quaternion_init"},
     seed \in 0..MaxSeed, criterion \in Criteria :
    LET effect == affect_init(parameters[1], parameters[2], parameters[3],
                              parameters[4], init_func, RandomState(seed),
                              criterion, np_random)
    IN  /\ Len(log) < MaxCalls
        /\ op' = "affect_init"
        /\ args' = <<parameters[1], parameters[2], parameters[3], parameters[4],
                     init_func, RandomState(seed), criterion>>
        /\ ret' = effect.value
        /\ np_random' = effect.np_random
        /\ weights' = effect.weights
        /\ log' = IF effect.drawn = None THEN log
                  ELSE Append(log, [fn |-> init_func,
                                    in_features |-> parameters[1].shape[1],
                                    out_features |-> parameters[1].shape[2],
                                    rng |-> RandomState(seed),
                                    criterion |-> criterion, ret |-> effect.drawn])
        /\ UNCHANGED ctx

NextRandom == Call_unitary_init \/ Call_quaternion_init \/ Call_affect_init

SpecRandom == InitRandom /\ [][NextRandom]_vars

-----------------------------------------------------------------------------
(* Reference definitions, by index, that the claims compare the code with. *)
(* A tensor of rank 2 or 3 is read as a matrix whose rows are its          *)
(* batch-like positions and whose columns are its last dimension.          *)

LastSize(t) == t.shape[Dim(t)]

RowCount(t) == Prod(t.shape) \div LastSize(t)

Elem(t, row, col) == t.data[row * LastSize(t) + col + 1]

Abs(x) == IF x < 0 THEN 0 - x ELSE x

\* The sign and block table of the specification: entry c of row a is the
\* block (1: r, 2: i, 3: j, 4: k) with its sign.
RowPattern ==
  << <<1, -2, -3, -4>>,
     <<2,  1, -4,  3>>,
     <<3,  4,  1, -2>>,
     <<4, -3,  2,  1>> >>

SignedBlock(entry, blocks, f, g) ==
  (IF entry < 0 THEN -1 ELSE 1) * At(blocks[Abs(entry)], <<f, g>>)

\* Element (p, q) of the 4F x 4G encoding as the specification states it:
\* each row's blocks side by side, the four rows stacked.
StatedEncoding(blocks, p, q) ==
  LET F == blocks[1].shape[1]
      G == blocks[1].shape[2]
  IN  SignedBlock(RowPattern[(p \div F) + 1][(q \div G) + 1], blocks, p % F, q % G)

\* Element (p, q) of the encoding with each row's blocks stacked into a
\* 4F x G column block and the four column blocks side by side.
ColumnEncoding(blocks, p, q) ==
  LET F == blocks[1].shape[1]
      G == blocks[1].shape[2]
  IN  SignedBlock(RowPattern[(q \div G) + 1][(p \div F) + 1], blocks, p % F, q % G)

\* input x Encoding + bias, row by row.
Affine(input, blocks, Encoding(_, _, _), bias) ==
  LET cols == 4 * blocks[1].shape[2]
  IN  Tensor([input.shape EXCEPT ![Dim(input)] = cols],
             [n \in 1..(RowCount(input) * cols) |->
                SumTo(LastSize(input),
                      LAMBDA p: Elem(input, (n - 1) \div cols, p)
                                * Encoding(blocks, p, (n - 1) % cols))
                + (IF IsTensor(bias) THEN bias.data[((n - 1) % cols) + 1] ELSE 0)])

IsLinearCall == op \in {"QuaternionLinearFunction.forward", "quaternion_linear"}

Blocks(a) == <<a[2], a[3], a[4], a[5]>>

\* C1, as amended: for a rank-2 or rank-3 input, weight blocks of equal
\* shape [F, G] and an optional bias of length 4G,
\* QuaternionLinearFunction.forward and quaternion_linear return
\* input x Encoding, plus the bias on every row when a bias is given, where
\* Encoding stacks the blocks of each of row_r, row_i, row_j, row_k
\* vertically into a 4F x G column block and sets the four column blocks
\* side by side in that order.
C1_ForwardIsColumnEncoding ==
  (IsLinearCall /\ ~BadInput(args[1]) /\ args[6] # PyTrue) =>
     ret = Affine(args[1], Blocks(args), ColumnEncoding, args[6])

\* C1 as stated: the encoding sets each row's blocks side by side and stacks
\* the four rows.
C1_AsStated ==
  (IsLinearCall /\ ~BadInput(args[1]) /\ args[6] # PyTrue) =>
     ret = Affine(args[1], Blocks(args), StatedEncoding, args[6])

\* A forward call on a rank-3 input with a bias whose result tells the two
\* layouts apart.
C1_Witness ==
  /\ op = "QuaternionLinearFunction.forward"
  /\ Dim(args[1]) = 3
  /\ IsTensor(args[6])
  /\ IsTensor(ret)
  /\ ret = Affine(args[1], Blocks(args), ColumnEncoding, args[6])
  /\ ret # Affine(args[1], Blocks(args), StatedEncoding, args[6])

-----------------------------------------------------------------------------

\* L = sum(forward(input, r, i, j, k, bias) * grad_output)
Loss(tensors, grad_output) ==
  LET product == mul(QuaternionLinearFunction_forward(
                       tensors[1], tensors[2], tensors[3], tensors[4],
                       tensors[5], tensors[6]), grad_output)
  IN  SumTo(Len(product.data), LAMBDA n: product.data[n + 1])

\* The tensor with element p raised by 1.
Raised(t, p) == Tensor(t.shape, [t.data EXCEPT ![p] = @ + 1])

IsBackwardOfAll ==
  /\ op = "QuaternionLinearFunction.backward"
  /\ Dim(ctx.saved_tensors[1]) = 2
  /\ \A s \in 1..6 : ctx.needs_input_grad[s]

\* C2: on a rank-2 input with every argument requiring gradient, raising one
\* element of the input or of a weight block by 1 changes
\* L = sum(forward * grad_output) by exactly the matching element of the
\* gradient that backward returns for that argument.
C2_GradientsAreExact ==
  IsBackwardOfAll =>
    LET base == Loss(ctx.saved_tensors, args[1])
    IN  /\ ret.kind = "tuple"
        /\ \A a \in 1..5 :
             /\ ret.data[a].shape = ctx.saved_tensors[a].shape
             /\ \A p \in 1..Len(ctx.saved_tensors[a].data) :
                  Loss([ctx.saved_tensors EXCEPT ![a] = Raised(@, p)], args[1]) - base
                  = ret.data[a].data[p]

\* A backward call on a batch of two rows whose gradients for the input and
\* for the k block are not zero.
C2_Witness ==
  /\ IsBackwardOfAll
  /\ ctx.saved_tensors[1].shape[1] = 2
  /\ ret.kind = "tuple"
  /\ \E p \in 1..Len(ret.data[1].data) : ret.data[1].data[p] # 0
  /\ \E p \in 1..Len(ret.data[5].data) : ret.data[5].data[p] # 0

-----------------------------------------------------------------------------

\* C3 as stated: a slot of the gradient tuple holds a value if and only if
\* its own argument requires gradient.
C3_AsStated ==
  (op = "QuaternionLinearFunction.backward" /\ ret.kind = "tuple") =>
     \A s \in 1..6 : (ret.data[s] # None) <=> ctx.needs_input_grad[s]

\* C4 as stated: the backward call matching a forward call with a bias on a
\* rank-2 or rank-3 input completes, and every gradient it returns has the
\* shape of its forward argument.
C4_AsStated ==
  (op = "QuaternionLinearFunction.backward" /\ IsTensor(ctx.saved_tensors[6])) =>
     /\ ret.kind = "tuple"
     /\ \A s \in 1..6 :
          ret.data[s] # None => ret.data[s].shape = ctx.saved_tensors[s].shape

\* The sum of a tensor over all its batch-like positions.
BatchSum(t) ==
  Tensor(<<LastSize(t)>>,
         [q \in 1..LastSize(t) |-> SumTo(RowCount(t), LAMBDA row: Elem(t, row, q - 1))])

\* C5 as stated: the grad_bias that backward returns is the sum of
\* grad_output over the batch axis and, at rank 3, the sequence axis.
C5_AsStated ==
  (/\ op = "QuaternionLinearFunction.backward"
   /\ ctx.needs_input_grad[6]
   /\ ret.kind = "tuple") =>
     ret.data[6] = BatchSum(args[1])

-----------------------------------------------------------------------------

\* Component c (0: r, 1: i, 2: j, 3: k) of quaternion h of a row.
Component(t, row, c, h) == Elem(t, row, c * (LastSize(t) \div 4) + h)

\* Component c of the Hamilton product of two quaternions given by their
\* components a and b.
HamiltonComponent(a, b, c) ==
  CASE c = 0 -> a[1] * b[1] - a[2] * b[2] - a[3] * b[3] - a[4] * b[4]
    [] c = 1 -> a[1] * b[2] + a[2] * b[1] + a[3] * b[4] - a[4] * b[3]
    [] c = 2 -> a[1] * b[3] - a[2] * b[4] + a[3] * b[1] + a[4] * b[2]
    [] c = 3 -> a[1] * b[4] + a[2] * b[3] - a[3] * b[2] + a[4] * b[1]

\* The tensor of q0's shape holding [r, i, j, k] of the elementwise products.
HamiltonByIndex(q0, q1) ==
  LET H == LastSize(q0) \div 4
  IN  Tensor(q0.shape,
             [n \in 1..Len(q0.data) |->
                LET row == (n - 1) \div (4 * H)
                    col == (n - 1) % (4 * H)
                IN  HamiltonComponent(
                      [c \in 1..4 |-> Component(q0, row, c - 1, col % H)],
                      [c \in 1..4 |-> Component(q1, row, c - 1, col % H)],
                      col \div H)])

IsHamiltonCall == op = "hamilton_product" /\ ~BadInput(args[1])

\* C6 as stated: for two quaternion tensors of one shape, rank 2 [B, 4H] or
\* rank 3 [B, S, 4H], hamilton_product returns the tensor of that shape that
\* concatenates along the last axis the r, i, j, k of the stated formulas.
C6_AsStated ==
  IsHamiltonCall => ret = HamiltonByIndex(args[1], args[2])

-----------------------------------------------------------------------------

PartitioningOps ==
  {"get_r", "get_i", "get_j", "get_k", "get_modulus", "get_normalized",
   "hamilton_product", "quaternion_linear", "QuaternionLinearFunction.forward"}

\* C7 as stated: every operation that depends on the quaternion partitioning
\* ends in the shape error of check_input, raised before any other step,
\* when its input has a rank outside {2, 3} or a last dimension that is no
\* multiple of 4.
C7_AsStated ==
  (op \in PartitioningOps /\ BadInput(args[1])) =>
     ret = Raise("RuntimeError", "check_input")

-----------------------------------------------------------------------------

\* grad_output x W, one row per batch-like position of the input.
PlainGradInput(input, weight, grad_output) ==
  Tensor(input.shape,
         [n \in 1..Len(input.data) |->
            SumTo(weight.shape[1],
                  LAMBDA o: Elem(grad_output, (n - 1) \div LastSize(input), o)
                            * At(weight, <<o, (n - 1) % LastSize(input)>>))])

\* The sum over the batch-like positions of grad_output^T x input.
PlainGradWeight(input, weight, grad_output) ==
  Tensor(weight.shape,
         [n \in 1..Len(weight.data) |->
            SumTo(RowCount(input),
                  LAMBDA row: Elem(grad_output, row, (n - 1) \div weight.shape[2])
                              * Elem(input, row, (n - 1) % weight.shape[2]))])

\* C9 as stated: at rank 2 and at rank 3, LinearFunction.backward returns
\* grad_output x W in the input's shape, the summed grad_output^T x input in
\* W's shape and the summed grad_output in b's shape.
C9_AsStated ==
  (/\ op = "LinearFunction.backward"
   /\ \A s \in 1..3 : ctx.needs_input_grad[s]) =>
     /\ ret.kind = "tuple"
     /\ ret.data[1] = PlainGradInput(ctx.saved_tensors[1], ctx.saved_tensors[2], args[1])
     /\ ret.data[2] = PlainGradWeight(ctx.saved_tensors[1], ctx.saved_tensors[2], args[1])
     /\ ret.data[3] = BatchSum(args[1])

-----------------------------------------------------------------------------

\* Quaternion f of a row of the input, and quaternion (f, g) of the weight,
\* as [1, 4] quaternion tensors.
InputQuaternion(input, row, f) ==
  Tensor(<<1, 4>>, [c \in 1..4 |-> Component(input, row, c - 1, f)])

WeightQuaternion(blocks, f, g) ==
  Tensor(<<1, 4>>, [c \in 1..4 |-> At(blocks[c], <<f, g>>)])

\* The sum over f of hamilton_product(w[f, g], x[f]) (weight on the left) or
\* of hamilton_product(x[f], w[f, g]).
HamiltonSum(input, blocks, row, g, weight_left) ==
  LET term(f) ==
        IF weight_left
          THEN hamilton_product(WeightQuaternion(blocks, f, g),
                                InputQuaternion(input, row, f))
        ELSE hamilton_product(InputQuaternion(input, row, f),
                              WeightQuaternion(blocks, f, g))
      S[n \in 0..blocks[1].shape[1]] ==
        IF n = 0 THEN Tensor(<<1, 4>>, <<0, 0, 0, 0>>)
        ELSE add(S[n - 1], term(n - 1))
  IN  S[blocks[1].shape[1]]

\* Quaternion g of a row of the forward output.
OutputQuaternion(output, row, g) ==
  Tensor(<<1, 4>>, [c \in 1..4 |-> Component(output, row, c - 1, g)])

IsBiaslessMatrixForward ==
  /\ op = "QuaternionLinearFunction.forward"
  /\ ~BadInput(args[1])
  /\ Dim(args[1]) = 2
  /\ args[6] = None

\* C10: without a bias, quaternion g of every row of the forward output on a
\* rank-2 input is the sum over f of hamilton_product(w[f, g], x[f]), the
\* weight being the left operand.
C10_WeightMultipliesOnTheLeft ==
  IsBiaslessMatrixForward =>
    /\ IsTensor(ret)
    /\ \A row \in 0..(args[1].shape[1] - 1), g \in 0..(args[2].shape[2] - 1) :
         OutputQuaternion(ret, row, g)
           = HamiltonSum(args[1], Blocks(args), row, g, TRUE)

\* A forward output that differs from the sum with the operands exchanged.
C10_Witness ==
  /\ IsBiaslessMatrixForward
  /\ IsTensor(ret)
  /\ \E row \in 0..(args[1].shape[1] - 1), g \in 0..(args[2].shape[2] - 1) :
       OutputQuaternion(ret, row, g)
         # HamiltonSum(args[1], Blocks(args), row, g, FALSE)

-----------------------------------------------------------------------------

\* C8 as stated: two calls of one initializer with the same in_features,
\* out_features and criterion and a caller-supplied rng in the same seeded
\* state return the same four weight blocks, whatever was drawn before or
\* between them.
C8_AsStated ==
  \A a \in 1..Len(log), b \in 1..Len(log) :
    (/\ log[a].fn = log[b].fn
     /\ log[a].in_features = log[b].in_features
     /\ log[a].out_features = log[b].out_features
     /\ log[a].criterion = log[b].criterion
     /\ log[a].rng = log[b].rng) =>
       log[a].ret = log[b].ret

====
